---- MODULE Spec2Model ----
(***************************************************************************)
(* A model of the pgn-reader scanning engine: the ReadPgn trait            *)
(* (src/src/reader.rs), its two adapters SliceReader and PgnReader, and    *)
(* the value types of src/src/types.rs.                                    *)
(*                                                                         *)
(* Bytes are their ASCII codes.  A reader is a record                      *)
(*   buf    the bytes buffer() returns (the window)                        *)
(*   src    the bytes the underlying source has not delivered yet          *)
(*   slice  TRUE for SliceReader, FALSE for PgnReader                      *)
(*   chunk  the largest number of bytes one read of the source delivers    *)
(*   failAt the number of reads that succeed before one read fails         *)
(*          (-1: the source never fails)                                   *)
(*   err    an Err is being propagated by the ? operator                   *)
(*   fault  consume was called with more bytes than the window holds, or   *)
(*          a slice of the window was taken out of its range (a panic)     *)
(***************************************************************************)
EXTENDS Integers, Sequences, FiniteSets, TLC

\* ------------------------------------------------------------------------
\* Bytes the scanner distinguishes
\* ------------------------------------------------------------------------
TAB == 9
LF == 10
CR == 13
SP == 32
QUOTE == 34
PCT == 37
SEMI == 59
LBRACKET == 91
BSL == 92
RBRACKET == 93
LBRACE == 123
RBRACE == 125
BOM == <<239, 187, 191>>

\* The window threshold of PgnReader::fill_buffer.  The program's value is
\* 8192; the model scales it down so that records both shorter and longer
\* than the window occur among the inputs.
MIN_BUFFER_SIZE == 8

\* SliceDeque::with_capacity(MIN_BUFFER_SIZE * 2)
Capacity == MIN_BUFFER_SIZE * 2

\* x is evaluated once and F applied to its value.
With(x, F(_)) == CHOOSE y \in {F(v) : v \in {x}} : TRUE

Min2(a, b) == IF a <= b THEN a ELSE b

SetMin(S) == CHOOSE x \in S : \A y \in S : x <= y

Drop(s, n) == SubSeq(s, n + 1, Len(s))

Take(s, n) == SubSeq(s, 1, n)

StartsWith(s, p) == Len(s) >= Len(p) /\ Take(s, Len(p)) = p

\* memchr / memchr2 / memchr3: the 0-based index of the first byte of s
\* that is in needles, or -1 (None).
Memchr(needles, haystack) ==
    With(haystack, LAMBDA s :
    With({i \in 1..Len(s) : s[i] \in needles}, LAMBDA I :
        IF I = {} THEN -1 ELSE SetMin(I) - 1))

\* ------------------------------------------------------------------------
\* The two adapters
\* ------------------------------------------------------------------------
SliceReaderNew(bs) ==
    [buf |-> bs, src |-> <<>>, slice |-> TRUE, chunk |-> 0, failAt |-> -1,
     err |-> FALSE, fault |-> FALSE]

PgnReaderNew(bs, c, f) ==
    [buf |-> <<>>, src |-> bs, slice |-> FALSE, chunk |-> c, failAt |-> f,
     err |-> FALSE, fault |-> FALSE]

\* PgnReader::fill_buffer: read into the free tail of the deque until the
\* window holds MIN_BUFFER_SIZE bytes, the source reports 0 bytes, or a read
\* fails.
\* A variant that reads the source once and returns.
PgnFillBufferOnce(self) ==
    With(self, LAMBDA r :
        IF Len(r.buf) >= MIN_BUFFER_SIZE THEN r
        ELSE IF r.failAt = 0 THEN [r EXCEPT !.err = TRUE, !.failAt = -1]
        ELSE With(Min2(Min2(r.chunk, Capacity - Len(r.buf)), Len(r.src)), LAMBDA size :
                 [r EXCEPT !.buf = @ \o Take(r.src, size),
                           !.src = Drop(@, size),
                           !.failAt = IF @ > 0 THEN @ - 1 ELSE @]))

\* A variant that takes from the source all it offers in one read and
\* keeps what fits the free tail.
RECURSIVE PgnFillBufferLossy(_)
PgnFillBufferLossy(self) ==
    With(self, LAMBDA r :
        IF Len(r.buf) >= MIN_BUFFER_SIZE THEN r
        ELSE IF r.failAt = 0 THEN [r EXCEPT !.err = TRUE, !.failAt = -1]
        ELSE With(Min2(Min2(r.chunk, Capacity - Len(r.buf)), Len(r.src)), LAMBDA size :
                 IF size = 0 THEN [r EXCEPT !.failAt = IF @ > 0 THEN @ - 1 ELSE @]
                 ELSE PgnFillBufferLossy([r EXCEPT !.buf = @ \o Take(r.src, size),
                                                   !.src = Drop(@, r.chunk),
                                                   !.failAt = IF @ > 0 THEN @ - 1 ELSE @])))

RECURSIVE PgnFillBuffer(_)
PgnFillBuffer(self) ==
    With(self, LAMBDA r :
        IF Len(r.buf) >= MIN_BUFFER_SIZE THEN r
        ELSE IF r.failAt = 0 THEN [r EXCEPT !.err = TRUE, !.failAt = -1]
        ELSE With(Min2(Min2(r.chunk, Capacity - Len(r.buf)), Len(r.src)), LAMBDA size :
                 IF size = 0 THEN [r EXCEPT !.failAt = IF @ > 0 THEN @ - 1 ELSE @]
                 ELSE PgnFillBuffer([r EXCEPT !.buf = @ \o Take(r.src, size),
                                              !.src = Drop(@, size),
                                              !.failAt = IF @ > 0 THEN @ - 1 ELSE @])))

\* fill_buffer: SliceReader answers pos < bytes.len() and never reads.
\* The boolean it returns is HasByte of the reader it leaves.
FillBuffer(self) == With(self, LAMBDA r : IF r.slice THEN r ELSE PgnFillBuffer(r))

HasByte(r) == Len(r.buf) > 0

\* consume(n): SliceReader adds to pos (debug_assert pos <= len),
\* PgnReader moves the head of the deque.
Consume(self, bytes) ==
    With(self, LAMBDA r : With(bytes, LAMBDA n :
        IF n > Len(r.buf) THEN [r EXCEPT !.buf = <<>>, !.fault = TRUE]
        ELSE [r EXCEPT !.buf = Drop(@, n)]))

\* bump: consume one byte if there is one.
Bump(self) == With(self, LAMBDA r : IF HasByte(r) THEN Consume(r, 1) ELSE r)

ConsumeAll(self) == With(self, LAMBDA r : Consume(r, Len(r.buf)))

\* PgnReader's own consume_all, bump and peek: self.buffer.clear(),
\* self.buffer.pop_front() and self.buffer.front().cloned().
PgnConsumeAll(self) == [self EXCEPT !.buf = <<>>]

PgnBump(self) == IF self.buf = <<>> THEN self ELSE [self EXCEPT !.buf = Tail(@)]

\* An Option<u8>: the byte, or -1 for None.
PgnPeek(self) == IF self.buf = <<>> THEN -1 ELSE Head(self.buf)

SkipBom(self) ==
    With(FillBuffer(self), LAMBDA r1 :
        IF r1.err THEN r1
        ELSE IF HasByte(r1) /\ StartsWith(r1.buf, BOM) THEN Consume(r1, 3)
        ELSE r1)

RECURSIVE SkipUntil(_, _)
SkipUntil(self, needle) ==
    With(FillBuffer(self), LAMBDA r1 :
        IF r1.err \/ ~HasByte(r1) THEN r1
        ELSE With(Memchr({needle}, r1.buf), LAMBDA p :
                 IF p >= 0 THEN Consume(r1, p)
                 ELSE SkipUntil(ConsumeAll(r1), needle)))

SkipLine(self) ==
    With(SkipUntil(self, LF), LAMBDA r1 : IF r1.err THEN r1 ELSE Bump(r1))

\* A variant of the whitespace set that leaves the tab out.
WhitespaceNoTab == {SP, CR, LF}

\* b' ' | b'\t' | b'\r' | b'\n'
Whitespace == {SP, TAB, CR, LF}

RECURSIVE SkipWhitespace(_)
RECURSIVE SkipWhitespaceInner(_)
SkipWhitespaceInner(self) ==
    With(self, LAMBDA r :
        IF ~HasByte(r) THEN SkipWhitespace(r)
        ELSE IF r.buf[1] \in Whitespace THEN SkipWhitespaceInner(Bump(r))
        ELSE IF r.buf[1] = PCT
             THEN With(SkipLine(Bump(r)), LAMBDA r1 :
                      IF r1.err THEN r1 ELSE SkipWhitespaceInner(r1))
        ELSE r)

SkipWhitespace(self) ==
    With(FillBuffer(self), LAMBDA r1 :
        IF r1.err \/ ~HasByte(r1) THEN r1 ELSE SkipWhitespaceInner(r1))

RECURSIVE SkipKet(_)
RECURSIVE SkipKetInner(_)
\* The result of skip_line after '%' is dropped: skip_ket answers Ok even
\* when the read inside skip_line failed.
SkipKetInner(self) ==
    With(self, LAMBDA r :
        IF ~HasByte(r) THEN SkipKet(r)
        ELSE IF r.buf[1] \in {SP, TAB, CR, RBRACKET} THEN SkipKetInner(Bump(r))
        ELSE IF r.buf[1] = PCT THEN [SkipLine(Bump(r)) EXCEPT !.err = FALSE]
        ELSE IF r.buf[1] = LF THEN Bump(r)
        ELSE r)

SkipKet(self) ==
    With(FillBuffer(self), LAMBDA r1 :
        IF r1.err \/ ~HasByte(r1) THEN r1 ELSE SkipKetInner(r1))

\* ------------------------------------------------------------------------
\* Visitor callbacks, as entries of the log of one call
\* ------------------------------------------------------------------------
Cb(name) == [cb |-> name, key |-> <<>>, value |-> <<>>, skip |-> FALSE, ret |-> 0]

HeaderCb(k, v) == [Cb("header") EXCEPT !.key = k, !.value = v]

EndHeadersCb(s) == [Cb("end_headers") EXCEPT !.skip = s]

EndGameCb(x) == [Cb("end_game") EXCEPT !.ret = x]

\* A visitor: skips is what end_headers answers, variations what
\* begin_variation answers, and end_game returns the number of header
\* callbacks of the game when counts (a statistics visitor as in
\* examples/), else the unit value.
Visitor(s) == [skips |-> s, variations |-> TRUE, counts |-> TRUE]

SkipVisitor == [skips |-> TRUE, variations |-> TRUE, counts |-> FALSE]

EndGame(v, log) ==
    IF v.counts THEN Cardinality({i \in 1..Len(log) : log[i].cb = "header"}) ELSE 0

\* ------------------------------------------------------------------------
\* read_headers
\* ------------------------------------------------------------------------
\* The loop that looks for the end of a quoted value: right_quote is where
\* the value span ends, consumed how many bytes the record takes.  The
\* slice &self.buffer()[right_quote..] is out of range, and the call
\* panics, when right_quote is past the end of the window.
ValueSpan(right_quote, consumed) ==
    [right_quote |-> right_quote, consumed |-> consumed, fault |-> FALSE]

SliceOutOfRange(buf) == [right_quote |-> Len(buf), consumed |-> Len(buf), fault |-> TRUE]

\* A variant that skips the escaped byte without clamping to the window.
RECURSIVE ValueEndUnclamped(_, _)
ValueEndUnclamped(buf, start) ==
    With(start, LAMBDA right_quote :
        IF right_quote > Len(buf) THEN SliceOutOfRange(buf)
        ELSE With(Memchr({BSL, QUOTE, LF}, Drop(buf, right_quote)), LAMBDA delta :
        IF delta = -1 THEN ValueSpan(Len(buf), Len(buf))
        ELSE IF buf[right_quote + delta + 1] = QUOTE
             THEN ValueSpan(right_quote + delta, right_quote + delta + 1)
        ELSE IF buf[right_quote + delta + 1] = LF
             THEN ValueSpan(right_quote + delta, right_quote + delta)
        ELSE ValueEndUnclamped(buf, right_quote + delta + 2)))

\* A variant that takes the byte behind a backslash as any other byte.
RECURSIVE ValueEndNoEscape(_, _)
ValueEndNoEscape(buf, start) ==
    With(start, LAMBDA right_quote :
        IF right_quote > Len(buf) THEN SliceOutOfRange(buf)
        ELSE With(Memchr({BSL, QUOTE, LF}, Drop(buf, right_quote)), LAMBDA delta :
        IF delta = -1 THEN ValueSpan(Len(buf), Len(buf))
        ELSE IF buf[right_quote + delta + 1] = QUOTE
             THEN ValueSpan(right_quote + delta, right_quote + delta + 1)
        ELSE IF buf[right_quote + delta + 1] = LF
             THEN ValueSpan(right_quote + delta, right_quote + delta)
        ELSE ValueEndNoEscape(buf, right_quote + delta + 1)))

RECURSIVE ValueEnd(_, _)
ValueEnd(buf, start) ==
    With(start, LAMBDA right_quote :
        IF right_quote > Len(buf) THEN SliceOutOfRange(buf)
        ELSE With(Memchr({BSL, QUOTE, LF}, Drop(buf, right_quote)), LAMBDA delta :
        IF delta = -1 THEN ValueSpan(Len(buf), Len(buf))
        ELSE IF buf[right_quote + delta + 1] = QUOTE
             THEN ValueSpan(right_quote + delta, right_quote + delta + 1)
        ELSE IF buf[right_quote + delta + 1] = LF
             THEN ValueSpan(right_quote + delta, right_quote + delta)
        ELSE ValueEnd(buf, Min2(right_quote + delta + 2, Len(buf)))))

\* One "[" record: r2 is the reader after the "[" was bumped, left_quote
\* the place of the opening quote.
RECURSIVE ReadHeaders(_, _)
QuotedHeader(r2, left_quote, log) ==
    LET space == IF left_quote > 0 /\ r2.buf[left_quote] = SP
                 THEN left_quote - 1 ELSE left_quote
        value_start == left_quote + 1
    IN  With(ValueEnd(r2.buf, value_start), LAMBDA e :
        IF e.fault \/ value_start > e.right_quote
        THEN [r |-> [r2 EXCEPT !.fault = TRUE], log |-> log]
        ELSE
        With(Append(log, HeaderCb(Take(r2.buf, space),
                                  SubSeq(r2.buf, value_start + 1, e.right_quote))),
             LAMBDA log3 :
        With(SkipKet(Consume(r2, e.consumed)), LAMBDA r3 :
            IF r3.err THEN [r |-> r3, log |-> log3]
            ELSE ReadHeaders(r3, log3))))

ReadHeaders(self, cbs) ==
    With(FillBuffer(self), LAMBDA r1 :
    With(cbs, LAMBDA log :
        IF r1.err \/ ~HasByte(r1) THEN [r |-> r1, log |-> log]
        ELSE IF r1.buf[1] = LBRACKET
        THEN With(Bump(r1), LAMBDA r2 :
             With(Memchr({QUOTE, LF}, r2.buf), LAMBDA q :
                 IF q = -1
                 THEN With(SkipLine(r2), LAMBDA r3 :
                          IF r3.err THEN [r |-> r3, log |-> log]
                          ELSE ReadHeaders(r3, log))
                 ELSE IF r2.buf[q + 1] = LF
                 THEN ReadHeaders(Consume(r2, q + 1),
                                  Append(log, HeaderCb(Take(r2.buf, q), <<>>)))
                 ELSE QuotedHeader(r2, q, log)))
        ELSE IF r1.buf[1] = PCT
        THEN With(SkipLine(r1), LAMBDA r2 :
                 IF r2.err THEN [r |-> r2, log |-> log] ELSE ReadHeaders(r2, log))
        ELSE [r |-> r1, log |-> log]))

\* ------------------------------------------------------------------------
\* skip_movetext
\* ------------------------------------------------------------------------
\* The b'\n' arm: r2 is the reader after the newline was bumped.
RECURSIVE SkipMovetext(_)
\* A variant that does not stop in front of "[".
AfterNewlineNoBracket(r2) ==
    IF ~HasByte(r2) THEN SkipMovetext(r2)
    ELSE IF r2.buf[1] = PCT
    THEN With(SkipUntil(r2, LF), LAMBDA r3 :
             IF r3.err THEN r3 ELSE SkipMovetext(r3))
    ELSE IF r2.buf[1] = LF THEN r2
    ELSE IF r2.buf[1] = CR
    THEN With(Bump(r2), LAMBDA r3 :
             IF HasByte(r3) /\ r3.buf[1] = LF THEN r3 ELSE SkipMovetext(r3))
    ELSE SkipMovetext(r2)

AfterNewline(r2) ==
    IF ~HasByte(r2) THEN SkipMovetext(r2)
    ELSE IF r2.buf[1] = PCT
    THEN With(SkipUntil(r2, LF), LAMBDA r3 :
             IF r3.err THEN r3 ELSE SkipMovetext(r3))
    ELSE IF r2.buf[1] \in {LF, LBRACKET} THEN r2
    ELSE IF r2.buf[1] = CR
    THEN With(Bump(r2), LAMBDA r3 :
             IF HasByte(r3) /\ r3.buf[1] = LF THEN r3 ELSE SkipMovetext(r3))
    ELSE SkipMovetext(r2)

SkipMovetext(self) ==
    With(FillBuffer(self), LAMBDA r1 :
        IF r1.err \/ ~HasByte(r1) THEN r1
        ELSE With(Bump(r1), LAMBDA r2 :
                 IF r1.buf[1] = LBRACE
                 THEN With(SkipUntil(r2, RBRACE), LAMBDA r3 :
                          IF r3.err THEN r3 ELSE SkipMovetext(Bump(r3)))
                 ELSE IF r1.buf[1] = SEMI
                 THEN With(SkipUntil(r2, LF), LAMBDA r3 :
                          IF r3.err THEN r3 ELSE SkipMovetext(r3))
                 ELSE IF r1.buf[1] = LF THEN AfterNewline(r2)
                 ELSE With(Memchr({LF, LBRACE, SEMI}, r2.buf), LAMBDA p :
                          SkipMovetext(Consume(r2, IF p >= 0 THEN p ELSE Len(r2.buf))))))

\* ------------------------------------------------------------------------
\* read_game and skip_game
\* ------------------------------------------------------------------------
\* The outcome of one call: the reader it leaves, the callbacks it made in
\* order, res ("Some", "None" or "Err") and, for Some, the value ret.
\* scan tells how many bytes of input were left when skip_movetext was
\* called and when it returned (NoScan: it was not called or did not return).
NoScan == [from |-> -1, to |-> -1]

Left(r) == Len(r.buf) + Len(r.src)

Outcome(r, log, res, ret) ==
    [r |-> r, log |-> log, res |-> res, ret |-> ret, scan |-> NoScan]

\* A variant that makes the two opening callbacks in the other order.
BeginCallbacksSwapped == <<Cb("begin_headers"), Cb("begin_game")>>

\* visitor.begin_game(); visitor.begin_headers();
BeginCallbacks == <<Cb("begin_game"), Cb("begin_headers")>>

\* A variant whose Skip(false) arm is the line left as a comment in the
\* source, self.skip_until(b'\n')?, in place of skip_movetext.
MovetextSkipUntil(h, v) ==
    With(Append(h.log, EndHeadersCb(v.skips)), LAMBDA log1 :
    With(IF ~v.skips THEN SkipUntil(h.r, LF) ELSE SkipMovetext(h.r), LAMBDA r4 :
        IF r4.err THEN Outcome(r4, log1, "Err", 0)
        ELSE With(SkipWhitespace(r4), LAMBDA r5 :
                 IF r5.err THEN Outcome(r5, log1, "Err", 0)
                 ELSE With(EndGame(v, log1), LAMBDA ret :
                          [Outcome(r5, Append(log1, EndGameCb(ret)), "Some", ret)
                              EXCEPT !.scan = [from |-> Left(h.r), to |-> Left(r4)]]))))

\* From end_headers on: h is what read_headers left.
Movetext(h, v) ==
    With(Append(h.log, EndHeadersCb(v.skips)), LAMBDA log1 :
    With(IF ~v.skips THEN SkipMovetext(h.r) ELSE SkipMovetext(h.r), LAMBDA r4 :
        IF r4.err THEN Outcome(r4, log1, "Err", 0)
        ELSE With(SkipWhitespace(r4), LAMBDA r5 :
                 IF r5.err THEN Outcome(r5, log1, "Err", 0)
                 ELSE With(EndGame(v, log1), LAMBDA ret :
                          [Outcome(r5, Append(log1, EndGameCb(ret)), "Some", ret)
                              EXCEPT !.scan = [from |-> Left(h.r), to |-> Left(r4)]]))))

\* A variant without the test for the end of the input.
ReadGameNoEndTest(self, v) ==
    With(SkipBom(self), LAMBDA r1 :
        IF r1.err THEN Outcome(r1, <<>>, "Err", 0)
        ELSE With(SkipWhitespace(r1), LAMBDA r2 :
        IF r2.err THEN Outcome(r2, <<>>, "Err", 0)
        ELSE With(FillBuffer(r2), LAMBDA r3 :
        IF r3.err THEN Outcome(r3, <<>>, "Err", 0)
        ELSE With(ReadHeaders(r3, BeginCallbacks), LAMBDA h :
        IF h.r.err THEN Outcome(h.r, h.log, "Err", 0)
        ELSE Movetext(h, v)))))

ReadGame(self, v) ==
    With(SkipBom(self), LAMBDA r1 :
        IF r1.err THEN Outcome(r1, <<>>, "Err", 0)
        ELSE With(SkipWhitespace(r1), LAMBDA r2 :
        IF r2.err THEN Outcome(r2, <<>>, "Err", 0)
        ELSE With(FillBuffer(r2), LAMBDA r3 :
        IF r3.err THEN Outcome(r3, <<>>, "Err", 0)
        ELSE IF ~HasByte(r3) THEN Outcome(r3, <<>>, "None", 0)
        ELSE With(ReadHeaders(r3, BeginCallbacks), LAMBDA h :
        IF h.r.err THEN Outcome(h.r, h.log, "Err", 0)
        ELSE Movetext(h, v)))))

\* skip_game: read_game with SkipVisitor, mapped to is_some().
SkipGame(r) == ReadGame(r, SkipVisitor)

\* ------------------------------------------------------------------------
\* RawHeader::decode and RawComment::decode (src/src/types.rs)
\* ------------------------------------------------------------------------
\* The for loop over memchr_iter(b'\\', self.0): i is the 1-based place
\* looked at, head and decoded the loop's two variables.  A backslash at
\* 0-based place escape = i - 1 that is followed by a backslash or a quote
\* appends self.0[head..escape] and sets head = escape + 1.
RECURSIVE DecodeLoop(_, _, _, _)
DecodeLoop(s, i, head, decoded) ==
    IF i > Len(s) THEN [head |-> head, decoded |-> decoded]
    ELSE IF s[i] = BSL /\ i + 1 <= Len(s) /\ s[i + 1] \in {BSL, QUOTE}
         THEN DecodeLoop(s, i + 1, i, decoded \o SubSeq(s, head + 1, i - 1))
         ELSE DecodeLoop(s, i + 1, head, decoded)

\* Cow::Borrowed(self.0) or Cow::Owned(decoded)
Borrowed(s) == [owned |-> FALSE, bytes |-> s]

Owned(s) == [owned |-> TRUE, bytes |-> s]

\* A variant that answers Owned whenever the span holds a backslash.
RawHeaderDecodeEager(s) ==
    LET d == DecodeLoop(s, 1, 0, <<>>)
    IN  IF \A i \in 1..Len(s) : s[i] # BSL THEN Borrowed(s)
        ELSE Owned(d.decoded \o Drop(s, d.head))

RawHeaderDecode(s) ==
    LET d == DecodeLoop(s, 1, 0, <<>>)
    IN  IF d.head = 0 THEN Borrowed(s)
        ELSE Owned(d.decoded \o Drop(s, d.head))

RawCommentDecode(s) ==
    LET d == DecodeLoop(s, 1, 0, <<>>)
    IN  IF d.head = 0 THEN Borrowed(s)
        ELSE Owned(d.decoded \o Drop(s, d.head))

\* ------------------------------------------------------------------------
\* Clock::from_ascii and Nag::from_ascii (src/src/types.rs)
\* ------------------------------------------------------------------------
\* The largest value of the u8 a Clock or a Nag holds.
U8_MAX == 255

Digits == 48..57

\* btoi::btou::<u8>: the value of a non-empty run of decimal digits, computed
\* with checked multiplication and addition; -1 stands for its Err (empty
\* input, a byte that is no digit, or a value past U8_MAX).
\* A variant that wraps around modulo 2^8 instead of failing.
RECURSIVE BtouLoopWrapping(_, _, _)
BtouLoopWrapping(s, index, acc) ==
    With(index, LAMBDA i : With(acc, LAMBDA n :
        IF i > Len(s) THEN n
        ELSE IF s[i] \notin Digits THEN -1
        ELSE BtouLoopWrapping(s, i + 1, (n * 10 + (s[i] - 48)) % (U8_MAX + 1))))

RECURSIVE BtouLoop(_, _, _)
BtouLoop(s, index, acc) ==
    With(index, LAMBDA i : With(acc, LAMBDA n :
        IF i > Len(s) THEN n
        ELSE IF s[i] \notin Digits THEN -1
        ELSE IF n * 10 + (s[i] - 48) > U8_MAX THEN -1
        ELSE BtouLoop(s, i + 1, n * 10 + (s[i] - 48))))

Btou(s) == IF s = <<>> THEN -1 ELSE BtouLoop(s, 1, 0)

\* .ok().map(..).ok_or(Invalid.. { _priv: () })
OkOr(n) == IF n >= 0 THEN [ok |-> TRUE, value |-> n, panic |-> FALSE]
           ELSE [ok |-> FALSE, value |-> 0, panic |-> FALSE]

\* The result of a slice expression that is out of range.
OutOfRange == [ok |-> FALSE, value |-> 0, panic |-> TRUE]

\* b" [%clk "
ClockPrefix == <<SP, LBRACKET, PCT, 99, 108, 107, SP>>

\* &s[0..7] and &s[12..13] panic when the slice ends past s.len().
ClockFromAscii(s) ==
    IF Len(s) < 7 THEN OutOfRange
    ELSE IF SubSeq(s, 1, 7) = ClockPrefix
         THEN IF Len(s) < 13 THEN OutOfRange
              ELSE OkOr(Btou(SubSeq(s, 13, 13)))
    ELSE OkOr(-1)

GOOD_MOVE == 1

MISTAKE == 2

BRILLIANT_MOVE == 3

BLUNDER == 4

SPECULATIVE_MOVE == 5

DUBIOUS_MOVE == 6

BANG == 33

QUERY == 63

DOLLAR == 36

\* A variant that takes the glyphs in another order of codes.
NagFromAsciiSwapped(s) ==
    IF s = <<QUERY, BANG>> THEN OkOr(SPECULATIVE_MOVE)
    ELSE IF s = <<QUERY>> THEN OkOr(MISTAKE)
    ELSE IF s = <<QUERY, QUERY>> THEN OkOr(BLUNDER)
    ELSE IF s = <<BANG>> THEN OkOr(GOOD_MOVE)
    ELSE IF s = <<BANG, BANG>> THEN OkOr(BRILLIANT_MOVE)
    ELSE IF s = <<BANG, QUERY>> THEN OkOr(DUBIOUS_MOVE)
    ELSE IF Len(s) > 1 /\ s[1] = DOLLAR THEN OkOr(Btou(Drop(s, 1)))
    ELSE OkOr(-1)

NagFromAscii(s) ==
    IF s = <<QUERY, BANG>> THEN OkOr(DUBIOUS_MOVE)
    ELSE IF s = <<QUERY>> THEN OkOr(MISTAKE)
    ELSE IF s = <<QUERY, QUERY>> THEN OkOr(BLUNDER)
    ELSE IF s = <<BANG>> THEN OkOr(GOOD_MOVE)
    ELSE IF s = <<BANG, BANG>> THEN OkOr(BRILLIANT_MOVE)
    ELSE IF s = <<BANG, QUERY>> THEN OkOr(SPECULATIVE_MOVE)
    ELSE IF Len(s) > 1 /\ s[1] = DOLLAR THEN OkOr(Btou(Drop(s, 1)))
    ELSE OkOr(-1)

\* The decimal digits of n, as "{}" formats a u8.
RECURSIVE Decimal(_)
Decimal(n) == IF n < 10 THEN <<48 + n>> ELSE Decimal(n \div 10) \o <<48 + (n % 10)>>

\* A variant that writes the number alone.
NagDisplayPlain(n) == Decimal(n)

\* impl fmt::Display for Nag: write!(f, "${}", self.0)
NagDisplay(n) == <<DOLLAR>> \o Decimal(n)

\* impl FromStr for Nag: Nag::from_ascii(s.as_bytes())
NagFromStr(s) == NagFromAscii(s)

\* ------------------------------------------------------------------------
\* Inputs: documents made of lines
\* ------------------------------------------------------------------------
\* "HA"  [A "1"]        a header record shorter than the window
\* "HB"  [B "23456789"] a header record longer than the window
\* "HC"  [C "\""]       a value holding an escaped quote
\* "HG"  [G"1"]         no space between key and value
\* "HT"  [F "1"] %c     a record followed by a %-comment
\* "HU"  [D "x          no closing quote
\* "HX"  [H "x\         no closing quote, a backslash before the newline
\* "HN"  [E]            no quote at all
\* "HM"  [M2345678]     no quote at all, longer than the window
\* "PC"  %c             a %-comment line
\* "BL"  (blank)   "CB" CR LF   "WS" space tab
\* "MV"  e4   "MR" e4 CR LF   "MS" ;c   "MC" {c}
\* "MB"  a brace comment holding a blank line and a "[" line
\* "MN"  e4 (d4 (Nf3) Nf6) e5   nested variations
\* "MO"  1-0              a result token
\* "BM"  the byte-order mark (no newline)
Key(id) ==
    CASE id = "HA" -> <<65>>
      [] id = "HB" -> <<66>>
      [] id = "HC" -> <<67>>
      [] id = "HG" -> <<71>>
      [] id = "HT" -> <<70>>
      [] id = "HU" -> <<68>>
      [] id = "HX" -> <<72>>
      [] id = "HN" -> <<69, RBRACKET>>
      [] id = "HM" -> <<77, 50, 51, 52, 53, 54, 55, 56, RBRACKET>>

Value(id) ==
    CASE id = "HA" -> <<49>>
      [] id = "HB" -> <<50, 51, 52, 53, 54, 55, 56, 57>>
      [] id = "HC" -> <<BSL, QUOTE>>
      [] id = "HG" -> <<49>>
      [] id = "HT" -> <<49>>
      [] id = "HU" -> <<120>>
      [] id = "HX" -> <<120, BSL>>
      [] id \in {"HN", "HM"} -> <<>>

\* [Key "Value"] and a newline
Record(id) ==
    <<LBRACKET>> \o Key(id) \o <<SP, QUOTE>> \o Value(id) \o <<QUOTE, RBRACKET, LF>>

LineBytes(id) ==
    CASE id \in {"HA", "HB", "HC"} -> Record(id)
      [] id = "HG" -> <<LBRACKET>> \o Key(id) \o <<QUOTE>> \o Value(id)
                        \o <<QUOTE, RBRACKET, LF>>
      [] id = "HT" -> <<LBRACKET>> \o Key(id) \o <<SP, QUOTE>> \o Value(id)
                        \o <<QUOTE, RBRACKET, SP, PCT, 99, LF>>
      [] id \in {"HU", "HX"} -> <<LBRACKET>> \o Key(id) \o <<SP, QUOTE>> \o Value(id) \o <<LF>>
      [] id \in {"HN", "HM"} -> <<LBRACKET>> \o Key(id) \o <<LF>>
      [] id = "PC" -> <<PCT, 99, LF>>
      [] id = "BL" -> <<LF>>
      [] id = "CB" -> <<CR, LF>>
      [] id = "WS" -> <<SP, TAB>>
      [] id = "MV" -> <<101, 52, LF>>
      [] id = "MR" -> <<101, 52, CR, LF>>
      [] id = "MS" -> <<SEMI, 99, LF>>
      [] id = "MC" -> <<LBRACE, 99, RBRACE, LF>>
      [] id = "MB" -> <<LBRACE, LF, LF, LBRACKET, RBRACE, LF>>
      [] id = "MN" -> <<101, 52, SP, 40, 100, 52, SP, 40, 78, 102, 51, 41, SP,
                        78, 102, 54, 41, SP, 101, 53, LF>>
      [] id = "MO" -> <<49, 45, 48, LF>>
      [] id = "BM" -> BOM

\* Lines that are a well-formed [Key "Value"] record, and movetext lines.
HeaderLines == {"HA", "HB", "HC", "HG", "HT"}

MovetextLines == {"MV", "MR", "MS", "MC", "MB", "MN", "MO"}

Lines ==
    HeaderLines \cup MovetextLines
        \cup {"HU", "HX", "HN", "HM", "PC", "BL", "CB", "WS", "BM"}

RECURSIVE Flatten(_)
Flatten(ss) == IF ss = <<>> THEN <<>> ELSE Head(ss) \o Flatten(Tail(ss))

RECURSIVE RenderLines(_)
RenderLines(ls) ==
    IF ls = <<>> THEN <<>> ELSE LineBytes(Head(ls)) \o RenderLines(Tail(ls))

\* A document is a sequence of sections, a section a sequence of lines.
Render(d) == RenderLines(Flatten(d))

\* The longest document of freely chosen lines.
MaxLines == 2

\* The largest number of games of a document of well-formed games.
MaxGames == 2

\* The number of read_game / skip_game calls made on each reader.
MaxCalls == 3

SeqsUpTo(S, n) == UNION {[1..k -> S] : k \in 0..n}

LineDocs == {<<ls>> : ls \in SeqsUpTo(Lines, MaxLines)}

\* A game: header lines, a blank line, movetext lines, a blank line.
Game(h, m) == h \o <<"BL">> \o m \o <<"BL">>

Games ==
    {Game(<<"HA">>, <<"MV">>),
     Game(<<"HB">>, <<"MV">>),
     Game(<<"HC", "HA">>, <<"MS", "MR">>),
     Game(<<"HG", "HT">>, <<"MC", "MB">>),
     Game(<<"HA", "HB">>, <<"MB">>),
     Game(<<"HT">>, <<"MR", "MV">>)}

\* The last game of a document may end at the end of the input.
DropLastLine(d) ==
    [d EXCEPT ![Len(d)] = SubSeq(d[Len(d)], 1, Len(d[Len(d)]) - 1)]

GameSeqs == SeqsUpTo(Games, MaxGames)

GameDocs == GameSeqs \cup {DropLastLine(d) : d \in GameSeqs \ {<<>>}}

\* Two games, the second (and in one document also the first) with a
\* byte-order mark before its first header record.
BomDocs ==
    {<<Game(<<"HA">>, <<"MV">>), <<"BM", "HG", "BL", "MV", "BL">>>>,
     <<Game(<<"BM", "HA">>, <<"MV">>), <<"BM", "HG", "BL", "MV">>>>}

\* Header blocks with %-comment lines between their records.
PctDocs ==
    {<<(<<"HA", "PC", "HG", "BL", "MV", "BL">>)>>,
     <<(<<"HA", "PC", "PC", "HC", "MV">>)>>,
     <<(<<"HT", "PC", "HA", "CB", "HA">>)>>,
     <<(<<"PC", "HA", "PC", "WS">>)>>,
     <<(<<"HA", "PC", "HB", "BL", "MV">>)>>,
     <<Game(<<"HG", "PC", "HA">>, <<"MC">>), Game(<<"HA">>, <<"MV">>)>>}

Docs == LineDocs \cup GameDocs \cup BomDocs \cup PctDocs

\* How the source splits its bytes into reads: one byte at a time, a few
\* bytes at a time, or as many as the free tail of the deque takes.
Chunks == {1, 3, Capacity}

\* ------------------------------------------------------------------------
\* State
\* ------------------------------------------------------------------------
VARIABLES
    doc,        \* the lines the input was made of
    bytes,      \* SliceReader.bytes
    pos,        \* SliceReader.pos
    inner,      \* PgnReader.inner: the source (data left, chunk, failAt)
    buffer,     \* PgnReader.buffer
    sliceOut,   \* the calls made on the SliceReader, in order
    pgnOut,     \* the calls made on the PgnReader, in order
    raw,        \* a byte string: the span a RawHeader / RawComment wraps, the
                \* argument of from_ascii, or the bytes taken out of the
                \* window by consume, bump and consume_all
    cow,        \* what decode() returned for it (kind "none": not called)
    result      \* what from_ascii or fill_buffer returned (fn "none": not called)

vars == <<doc, bytes, pos, inner, buffer, sliceOut, pgnOut, raw, cow, result>>

readerVars == <<doc, bytes, pos, inner, buffer, sliceOut, pgnOut>>

NotDecoded == [kind |-> "none", owned |-> FALSE, bytes |-> <<>>]

Decoded(kind, c) == [kind |-> kind, owned |-> c.owned, bytes |-> c.bytes]

\* What a call returned: Ok(value), Err, or a panic (the call never returns).
NoResult == [fn |-> "none", ok |-> FALSE, value |-> 0, panic |-> FALSE]

Returned(fn, r) == [fn |-> fn, ok |-> r.ok, value |-> r.value, panic |-> r.panic]

\* The readers as the trait sees them.
SliceR == SliceReaderNew(Drop(bytes, pos))

PgnR == [PgnReaderNew(inner.data, inner.chunk, inner.failAt) EXCEPT !.buf = buffer]

\* One call: failed tells whether a read of the source failed within it,
\* consumed by how many bytes the call advanced the reader; a call that
\* panicked has res "Panic"; scan holds the offsets into the input at
\* which skip_movetext started and stopped.
Call(op, v, o, failed, consumed) ==
    [op |-> op, skips |-> v.skips, log |-> o.log,
     res |-> IF o.r.fault THEN "Panic" ELSE o.res, ret |-> o.ret,
     failed |-> failed, consumed |-> consumed,
     scan |-> IF o.scan = NoScan THEN NoScan
              ELSE [from |-> Len(bytes) - o.scan.from, to |-> Len(bytes) - o.scan.to]]

Init ==
    /\ doc \in Docs
    /\ bytes = Render(doc)
    /\ pos = 0
    /\ \E c \in Chunks : inner = [data |-> bytes, chunk |-> c, failAt |-> -1]
    /\ buffer = <<>>
    /\ sliceOut = <<>>
    /\ pgnOut = <<>>
    /\ raw = <<>>
    /\ cow = NotDecoded
    /\ result = NoResult

\* The driver makes the same calls on both readers, the SliceReader first,
\* and stops calling once both have reported no game.
Exhausted(h) == h # <<>> /\ h[Len(h)].res # "Some"

SliceTurn ==
    /\ Len(sliceOut) = Len(pgnOut)
    /\ Len(sliceOut) < MaxCalls
    /\ ~(Exhausted(sliceOut) /\ Exhausted(pgnOut))

PgnTurn(op, s) ==
    /\ Len(pgnOut) < Len(sliceOut)
    /\ sliceOut[Len(pgnOut) + 1].op = op
    /\ sliceOut[Len(pgnOut) + 1].skips = s

SliceDo(op, v) ==
    \E o \in {ReadGame(SliceR, v)} :
        /\ pos' = Len(bytes) - Len(o.r.buf)
        /\ sliceOut' = Append(sliceOut,
                              Call(op, v, o, FALSE, Len(bytes) - Len(o.r.buf) - pos))
        /\ UNCHANGED <<doc, bytes, inner, buffer, pgnOut, raw, cow, result>>

PgnDo(op, v) ==
    \E o \in {ReadGame(PgnR, v)} :
        /\ buffer' = o.r.buf
        /\ inner' = [inner EXCEPT !.data = o.r.src, !.failAt = o.r.failAt]
        /\ pgnOut' = Append(pgnOut,
                            Call(op, v, o, inner.failAt >= 0 /\ o.r.failAt = -1,
                                 (Len(buffer) + Len(inner.data))
                                     - (Len(o.r.buf) + Len(o.r.src))))
        /\ UNCHANGED <<doc, bytes, pos, sliceOut, raw, cow, result>>

SliceReadGame(s) == SliceTurn /\ SliceDo("read_game", Visitor(s))

SliceSkipGame == SliceTurn /\ SliceDo("skip_game", SkipVisitor)

PgnReadGame(s) == PgnTurn("read_game", s) /\ PgnDo("read_game", Visitor(s))

PgnSkipGame == PgnTurn("skip_game", TRUE) /\ PgnDo("skip_game", SkipVisitor)

Next ==
    \/ \E s \in BOOLEAN : SliceReadGame(s)
    \/ SliceSkipGame
    \/ \E s \in BOOLEAN : PgnReadGame(s)
    \/ PgnSkipGame

Spec == Init /\ [][Next]_vars

\* ------------------------------------------------------------------------
\* A source whose read fails once, after failAt reads that succeeded
\* ------------------------------------------------------------------------
\* The largest number of reads before the failing one.
MaxFail == 6

FailDocs ==
    {<<<<l>>>> : l \in Lines}
        \cup {<<<<"HT", "HA">>>>, <<<<"PC", "HA">>>>, <<<<"BM", "HT">>>>,
               <<Game(<<"HT">>, <<"MC">>)>>,
               <<Game(<<"HA">>, <<"MS">>), Game(<<"HT">>, <<"MV">>)>>}

InitFail ==
    /\ doc \in FailDocs
    /\ bytes = Render(doc)
    /\ pos = 0
    /\ \E c \in Chunks, f \in 0..MaxFail :
          inner = [data |-> bytes, chunk |-> c, failAt |-> f]
    /\ buffer = <<>>
    /\ sliceOut = <<>>
    /\ pgnOut = <<>>
    /\ raw = <<>>
    /\ cow = NotDecoded
    /\ result = NoResult

SpecFail == InitFail /\ [][Next]_vars

\* ------------------------------------------------------------------------
\* Arbitrary input: every string of up to MaxBytes of the bytes the scanner
\* branches on, and every prefix of a document (input cut at any point)
\* ------------------------------------------------------------------------
MaxBytes == 3

ScanBytes == {LBRACKET, QUOTE, BSL, LF, PCT, LBRACE, 97}

Prefixes(bs) == {Take(bs, n) : n \in 0..Len(bs)}

ByteInputs ==
    SeqsUpTo(ScanBytes, MaxBytes) \cup UNION {Prefixes(Render(d)) : d \in FailDocs}

InitBytes ==
    /\ doc = <<>>
    /\ bytes \in ByteInputs
    /\ pos = 0
    /\ \E c \in Chunks : inner = [data |-> bytes, chunk |-> c, failAt |-> -1]
    /\ buffer = <<>>
    /\ sliceOut = <<>>
    /\ pgnOut = <<>>
    /\ raw = <<>>
    /\ cow = NotDecoded
    /\ result = NoResult

SpecBytes == InitBytes /\ [][Next]_vars

\* ------------------------------------------------------------------------
\* Documents of two games, and the documents above with %-lines, byte-order
\* marks and malformed lines, read by visitors whose answers differ
\* ------------------------------------------------------------------------
TwoGames == {<<g, h>> : g \in Games, h \in Games}

VisitDocs ==
    TwoGames \cup {DropLastLine(d) : d \in TwoGames}
        \cup FailDocs \cup BomDocs \cup PctDocs

InitVisit ==
    /\ doc \in VisitDocs
    /\ bytes = Render(doc)
    /\ pos = 0
    /\ \E c \in Chunks : inner = [data |-> bytes, chunk |-> c, failAt |-> -1]
    /\ buffer = <<>>
    /\ sliceOut = <<>>
    /\ pgnOut = <<>>
    /\ raw = <<>>
    /\ cow = NotDecoded
    /\ result = NoResult

SpecVisit == InitVisit /\ [][Next]_vars

\* ------------------------------------------------------------------------
\* read_game called over and over with no bound on the number of calls,
\* first on the SliceReader and, once that has returned None, on the
\* PgnReader as well; sliceOut and pgnOut hold the latest call only
\* ------------------------------------------------------------------------
DrainInputs ==
    ByteInputs \cup {Render(d) : d \in GameDocs \cup BomDocs \cup PctDocs}

InitDrain ==
    /\ doc = <<>>
    /\ bytes \in DrainInputs
    /\ pos = 0
    /\ \E c \in Chunks : inner = [data |-> bytes, chunk |-> c, failAt |-> -1]
    /\ buffer = <<>>
    /\ sliceOut = <<>>
    /\ pgnOut = <<>>
    /\ raw = <<>>
    /\ cow = NotDecoded
    /\ result = NoResult

SliceDrain ==
    \E s \in BOOLEAN : \E o \in {ReadGame(SliceR, Visitor(s))} :
        /\ pos' = Len(bytes) - Len(o.r.buf)
        /\ sliceOut' = <<Call("read_game", Visitor(s), o, FALSE,
                               Len(bytes) - Len(o.r.buf) - pos)>>
        /\ UNCHANGED <<doc, bytes, inner, buffer, pgnOut, raw, cow, result>>

PgnDrain ==
    \E s \in BOOLEAN : \E o \in {ReadGame(PgnR, Visitor(s))} :
        /\ sliceOut # <<>> /\ sliceOut[1].res = "None"
        /\ buffer' = o.r.buf
        /\ inner' = [inner EXCEPT !.data = o.r.src]
        /\ pgnOut' = <<Call("read_game", Visitor(s), o, FALSE,
                             (Len(buffer) + Len(inner.data))
                                 - (Len(o.r.buf) + Len(o.r.src)))>>
        /\ UNCHANGED <<doc, bytes, pos, sliceOut, raw, cow, result>>

NextDrain == SliceDrain \/ PgnDrain

\* The caller keeps calling each reader.
SpecDrain ==
    InitDrain /\ [][NextDrain]_vars /\ WF_vars(SliceDrain) /\ WF_vars(PgnDrain)

\* ------------------------------------------------------------------------
\* fill_buffer and consume on their own, the size of the reads chosen anew
\* for every fill_buffer call
\* ------------------------------------------------------------------------
InitFill ==
    /\ doc \in FailDocs
    /\ bytes = Render(doc)
    /\ pos = 0
    /\ \E c \in Chunks, f \in -1..MaxFail :
          inner = [data |-> bytes, chunk |-> c, failAt |-> f]
    /\ buffer = <<>>
    /\ sliceOut = <<>>
    /\ pgnOut = <<>>
    /\ raw = <<>>
    /\ cow = NotDecoded
    /\ result = NoResult

\* Ok(!self.buffer.is_empty()), as 1 or 0
PgnFillBufferCall(c) ==
    \E f \in {PgnFillBuffer([PgnR EXCEPT !.chunk = c])} :
        /\ buffer' = f.buf
        /\ inner' = [data |-> f.src, chunk |-> c, failAt |-> f.failAt]
        /\ result' = Returned("fill_buffer",
                        OkOr(IF f.err THEN -1 ELSE IF HasByte(f) THEN 1 ELSE 0))
        /\ UNCHANGED <<doc, bytes, pos, sliceOut, pgnOut, raw, cow>>

\* raw collects the bytes that leave the window at its head.
PgnConsumeCall(n) ==
    /\ n \in 1..Len(buffer)
    /\ buffer' = Consume(PgnR, n).buf
    /\ raw' = raw \o Take(buffer, n)
    /\ result' = NoResult
    /\ UNCHANGED <<doc, bytes, pos, inner, sliceOut, pgnOut, cow>>

\* bump returns the byte it took, if any.
PgnBumpCall ==
    /\ buffer' = PgnBump(PgnR).buf
    /\ raw' = IF PgnPeek(PgnR) = -1 THEN raw ELSE Append(raw, PgnPeek(PgnR))
    /\ result' = Returned("bump", OkOr(PgnPeek(PgnR)))
    /\ UNCHANGED <<doc, bytes, pos, inner, sliceOut, pgnOut, cow>>

PgnConsumeAllCall ==
    /\ buffer' = PgnConsumeAll(PgnR).buf
    /\ raw' = raw \o buffer
    /\ result' = Returned("consume_all", OkOr(0))
    /\ UNCHANGED <<doc, bytes, pos, inner, sliceOut, pgnOut, cow>>

NextFill ==
    \/ \E c \in Chunks : PgnFillBufferCall(c)
    \/ \E n \in {1, 3, Len(buffer)} : PgnConsumeCall(n)
    \/ PgnBumpCall
    \/ PgnConsumeAllCall

SpecFill == InitFill /\ [][NextFill]_vars

\* ------------------------------------------------------------------------
\* decode() on its own: every span over backslash, quote and a letter up to
\* MaxRaw bytes, and the spans of the documentation and the unit tests.
\* ------------------------------------------------------------------------
MaxRaw == 5

\* \"a\\b\"  (the escaping example) and  \H \"w\\  (tests::test_raw_header,
\* with its words shortened)
ExampleRaw == <<BSL, QUOTE, 97, BSL, BSL, 98, BSL, QUOTE>>

TestRaw == <<BSL, 72, SP, BSL, QUOTE, 119, BSL, BSL>>

RawValues == SeqsUpTo({BSL, QUOTE, 97}, MaxRaw) \cup {ExampleRaw, TestRaw}

InitDecode ==
    /\ raw \in RawValues
    /\ cow = NotDecoded
    /\ result = NoResult
    /\ doc = <<>>
    /\ bytes = <<>>
    /\ pos = 0
    /\ inner = [data |-> <<>>, chunk |-> 1, failAt |-> -1]
    /\ buffer = <<>>
    /\ sliceOut = <<>>
    /\ pgnOut = <<>>

HeaderDecode ==
    /\ cow.kind # "header"
    /\ cow' = Decoded("header", RawHeaderDecode(raw))
    /\ UNCHANGED <<raw, result, readerVars>>

CommentDecode ==
    /\ cow.kind # "comment"
    /\ cow' = Decoded("comment", RawCommentDecode(raw))
    /\ UNCHANGED <<raw, result, readerVars>>

NextDecode == HeaderDecode \/ CommentDecode

SpecDecode == InitDecode /\ [][NextDecode]_vars

\* ------------------------------------------------------------------------
\* from_ascii on its own: clock comments, whole, cut short and with one
\* byte replaced; strings over the bytes a NAG is made of; "$n".
\* ------------------------------------------------------------------------
MaxHours == 1

\* The longest string of freely chosen NAG bytes.
MaxNagLen == 3

\* The largest n of the inputs "$n".
MaxNumber == 300

ClockTimes == [h : 0..MaxHours, m : {0, 1, 4, 59}, s : {0, 7, 15, 59}]

TwoDigits(n) == <<48 + (n \div 10), 48 + (n % 10)>>

\* " [%clk H:MM:SS] "
ClockText(t) ==
    ClockPrefix \o <<48 + t.h, 58>> \o TwoDigits(t.m) \o <<58>> \o TwoDigits(t.s)
        \o <<RBRACKET, SP>>

ClockInputs ==
    {Take(ClockText(t), n) : t \in ClockTimes, n \in 0..16}
        \cup {[ClockText(t) EXCEPT ![p] = 120] : t \in ClockTimes, p \in 1..16}

NagInputs ==
    SeqsUpTo({BANG, QUERY, DOLLAR, 48, 57, 97, 43}, MaxNagLen)
        \cup {NagDisplay(n) : n \in 0..MaxNumber}

InitAscii ==
    /\ raw \in ClockInputs \cup NagInputs
    /\ result = NoResult
    /\ cow = NotDecoded
    /\ doc = <<>>
    /\ bytes = <<>>
    /\ pos = 0
    /\ inner = [data |-> <<>>, chunk |-> 1, failAt |-> -1]
    /\ buffer = <<>>
    /\ sliceOut = <<>>
    /\ pgnOut = <<>>

ClockFromAsciiCall ==
    /\ result.fn # "Clock::from_ascii"
    /\ result' = Returned("Clock::from_ascii", ClockFromAscii(raw))
    /\ UNCHANGED <<raw, cow, readerVars>>

NagFromAsciiCall ==
    /\ result.fn # "Nag::from_ascii"
    /\ result' = Returned("Nag::from_ascii", NagFromAscii(raw))
    /\ UNCHANGED <<raw, cow, readerVars>>

\* to_string() of the Nag that from_ascii returned: raw becomes its text.
NagDisplayCall ==
    /\ result.fn = "Nag::from_ascii" /\ result.ok
    /\ raw' = NagDisplay(result.value)
    /\ result' = [result EXCEPT !.fn = "Nag::fmt"]
    /\ UNCHANGED <<cow, readerVars>>

\* The text is parsed back.
NagFromStrCall ==
    /\ result.fn = "Nag::fmt"
    /\ result' = Returned("Nag::from_str", NagFromStr(raw))
    /\ UNCHANGED <<raw, cow, readerVars>>

NextAscii ==
    \/ ClockFromAsciiCall
    \/ NagFromAsciiCall
    \/ NagDisplayCall
    \/ NagFromStrCall

SpecAscii == InitAscii /\ [][NextAscii]_vars

\* ------------------------------------------------------------------------
\* Vocabulary of the properties
\* ------------------------------------------------------------------------
Histories == {sliceOut, pgnOut}

AllCalls == {sliceOut[i] : i \in 1..Len(sliceOut)} \cup {pgnOut[i] : i \in 1..Len(pgnOut)}

MovetextCbs == {"san", "nag", "comment", "begin_variation", "end_variation", "outcome"}

\* The header callbacks of a log, in order, as <<key, value>> pairs.
RECURSIVE Headers(_)
Headers(log) ==
    IF log = <<>> THEN <<>>
    ELSE IF Head(log).cb = "header"
         THEN <<[key |-> Head(log).key, value |-> Head(log).value]>> \o Headers(Tail(log))
         ELSE Headers(Tail(log))

\* begin_game, begin_headers, header*, end_headers, movetext callbacks, end_game
GoodOrder(log) ==
    LET n == Len(log)
    IN  /\ n >= 4
        /\ log[1].cb = "begin_game"
        /\ log[2].cb = "begin_headers"
        /\ log[n].cb = "end_game"
        /\ \E k \in 3..(n - 1) :
              /\ log[k].cb = "end_headers"
              /\ \A i \in 3..(k - 1) : log[i].cb = "header"
              /\ \A i \in (k + 1)..(n - 1) : log[i].cb \in MovetextCbs

\* A section that is one well-formed game: header records, a blank line,
\* movetext lines and a blank line (or the end of the section).
IsGame(sec) ==
    \E h \in 1..Len(sec), m \in 1..Len(sec) :
        /\ Len(sec) \in {h + 1 + m, h + 2 + m}
        /\ \A i \in 1..h : sec[i] \in HeaderLines
        /\ sec[h + 1] = "BL"
        /\ \A i \in (h + 2)..(h + 1 + m) : sec[i] \in MovetextLines
        /\ Len(sec) = h + 2 + m => sec[h + 2 + m] = "BL"

\* A document of N >= 1 well-formed games; only the last may lack its
\* terminating blank line.
IsGameDoc(d) ==
    /\ d # <<>>
    /\ \A i \in 1..Len(d) : IsGame(d[i])
    /\ \A i \in 1..(Len(d) - 1) : d[i][Len(d[i])] = "BL"

\* The header records of a game, as the header callback is to receive them.
RECURSIVE GameHeaders(_)
GameHeaders(sec) ==
    IF sec = <<>> \/ Head(sec) \notin HeaderLines THEN <<>>
    ELSE <<[key |-> Key(Head(sec)), value |-> Value(Head(sec))]>>
            \o GameHeaders(Tail(sec))

\* ------------------------------------------------------------------------
\* C1: a read_game call that returns Some has called begin_game,
\* begin_headers, header zero or more times, end_headers, then only
\* movetext callbacks, then end_game last, and returns what end_game
\* returned; a call that returns None has made no callback.
\* ------------------------------------------------------------------------
\* C1: every call that returned Some made its callbacks in the stated order
\* and returned end_game's value; every call that returned None made none.
C1_CallbackOrder ==
    \A c \in AllCalls :
        /\ c.res = "Some" => GoodOrder(c.log) /\ c.ret = c.log[Len(c.log)].ret
        /\ c.res = "None" => c.log = <<>>

C1_Witness ==
    /\ Len(pgnOut) >= 2
    /\ pgnOut[1].op = "read_game" /\ pgnOut[1].res = "Some"
    /\ Len(Headers(pgnOut[1].log)) >= 2
    /\ pgnOut[1].ret = 2
    /\ sliceOut[1].res = "Some" /\ Len(Headers(sliceOut[1].log)) >= 2
    /\ pgnOut[2].res = "None" /\ sliceOut[2].res = "None"

\* ------------------------------------------------------------------------
\* C2: on an empty or whitespace-only source (space, tab, CR, LF) read_game
\* reports no game, without error, on both readers.
\* ------------------------------------------------------------------------
WhitespaceOnly(bs) == \A i \in 1..Len(bs) : bs[i] \in {SP, TAB, CR, LF}

\* C2: every call on a whitespace-only source returns None, on both readers.
C2_WhitespaceOnlyIsNone ==
    WhitespaceOnly(bytes) => \A c \in AllCalls : c.res = "None"

C2_Witness ==
    /\ WhitespaceOnly(bytes)
    /\ \E i \in 1..Len(bytes) : bytes[i] = TAB
    /\ \E i \in 1..Len(bytes) : bytes[i] = CR
    /\ Len(sliceOut) >= 1 /\ sliceOut[1].res = "None"
    /\ Len(pgnOut) >= 1 /\ pgnOut[1].res = "None"

\* ------------------------------------------------------------------------
\* C6: decode resolves the documented escapes for every byte string: left
\* to right, backslash-backslash yields one backslash, backslash-quote one
\* quote (each byte in at most one escape), every other byte is copied.
\* ------------------------------------------------------------------------
RECURSIVE Unescape(_)
Unescape(s) ==
    IF s = <<>> THEN <<>>
    ELSE IF Len(s) >= 2 /\ s[1] = BSL /\ s[2] \in {BSL, QUOTE}
         THEN <<s[2]>> \o Unescape(Drop(s, 2))
         ELSE <<s[1]>> \o Unescape(Tail(s))

\* C6: what decode returns equals the left-to-right un-escaping of the span.
C6_DecodeUnescapes == cow.kind # "none" => cow.bytes = Unescape(raw)

\* The documented example and the unit test's span do decode as stated.
C6_ExamplesDecode ==
    (cow.kind # "none" /\ raw \in {ExampleRaw, TestRaw}) => cow.bytes = Unescape(raw)

\* ------------------------------------------------------------------------
\* C7: decode returns the span itself, borrowed, when it holds no escape
\* sequence, and an owned buffer only when it holds one.
\* ------------------------------------------------------------------------
HasEscape(s) == \E i \in 1..(Len(s) - 1) : s[i] = BSL /\ s[i + 1] \in {BSL, QUOTE}

\* C7: decode answers Owned exactly when the span holds an escape sequence,
\* and a Borrowed answer is the span itself.
C7_BorrowedUnlessEscape ==
    cow.kind # "none" =>
        /\ cow.owned <=> HasEscape(raw)
        /\ ~cow.owned => cow.bytes = raw

C7_Witness ==
    /\ cow.kind = "header"
    /\ ~cow.owned
    /\ \E i \in 1..Len(raw) : raw[i] = BSL
    /\ Len(raw) >= 3

\* ------------------------------------------------------------------------
\* Header records at the start of a document
\* ------------------------------------------------------------------------
RecordLines == HeaderLines \cup {"HU", "HX", "HN", "HM"}

\* The lines of the first header block: the leading record lines.
RECURSIVE Block(_)
Block(sec) ==
    IF sec = <<>> \/ Head(sec) \notin RecordLines THEN <<>>
    ELSE <<Head(sec)>> \o Block(Tail(sec))

FirstBlock == IF doc = <<>> THEN <<>> ELSE Block(doc[1])

Count(b, S) == Cardinality({i \in 1..Len(b) : b[i] \in S})

\* What the header callback is to receive for each line of a block.
Expected(b) == [j \in 1..Len(b) |-> [key |-> Key(b[j]), value |-> Value(b[j])]]

\* Lines whose record does not end within MIN_BUFFER_SIZE bytes of its "[".
LongLines == {"HB", "HM", "HX"}

NoLongLine == \A i \in 1..Len(doc) : \A j \in 1..Len(doc[i]) : doc[i][j] \notin LongLines

\* ------------------------------------------------------------------------
\* C3: when end_headers answers Skip(true) no movetext callback fires and
\* the reader is still advanced past the game's movetext: on a document of
\* two games, a skipping call followed by a call delivers the second game's
\* first header as the first header callback of the second call.
\* ------------------------------------------------------------------------
SkipThenRead(h) ==
    (IsGameDoc(doc) /\ Len(doc) >= 2 /\ Len(h) >= 2 /\ h[1].skips) =>
        /\ h[1].res = "Some"
        /\ \A i \in 1..Len(h[1].log) : h[1].log[i].cb \notin MovetextCbs
        /\ h[2].res = "Some"
        /\ Headers(h[2].log) # <<>>
        /\ Headers(h[2].log)[1].key = GameHeaders(doc[2])[1].key

\* C3: on both readers, a skipping call on a document of two games makes no
\* movetext callback and the next call starts at the second game.
C3_SkipAdvancesPastGame == \A h \in Histories : SkipThenRead(h)

\* It holds of the SliceReader, and of the PgnReader on records that end
\* within the window.
C3_OnSlice == SkipThenRead(sliceOut)

C3_WithinWindow == NoLongLine => SkipThenRead(pgnOut)

\* ------------------------------------------------------------------------
\* C4: on a document of N well-formed games the k-th read_game call
\* (k <= N) returns Some and delivers exactly the header records of the
\* k-th game, and call N+1 returns None.
\* ------------------------------------------------------------------------
OneGamePerCall(h) ==
    IsGameDoc(doc) =>
        \A k \in 1..Len(h) :
            /\ k <= Len(doc) =>
                  h[k].res = "Some" /\ Headers(h[k].log) = Expected(Block(doc[k]))
            /\ k = Len(doc) + 1 => h[k].res = "None"

\* C4: on both readers, call k delivers the headers of game k and call N+1
\* returns None.
C4_OneGamePerCall == \A h \in Histories : OneGamePerCall(h)

C4_OnSlice == OneGamePerCall(sliceOut)

C4_WithinWindow == NoLongLine => OneGamePerCall(pgnOut)

\* ------------------------------------------------------------------------
\* C5: for a record [Key "V"] whose V holds no backslash, quote or newline
\* the header callback receives the key Key and a RawHeader whose decode()
\* equals V.
\* ------------------------------------------------------------------------
EscapeFree(v) == \A i \in 1..Len(v) : v[i] \notin {BSL, QUOTE, LF}

\* The leading well-formed records of the document, in the first call.
RoundTrip(h) ==
    Len(h) >= 1 =>
        \A j \in 1..Len(FirstBlock) :
            (/\ \A i \in 1..j : FirstBlock[i] \in HeaderLines
             /\ EscapeFree(Value(FirstBlock[j]))) =>
                /\ j <= Len(Headers(h[1].log))
                /\ Headers(h[1].log)[j].key = Key(FirstBlock[j])
                /\ RawHeaderDecode(Headers(h[1].log)[j].value).bytes = Value(FirstBlock[j])

\* C5: on both readers, every leading well-formed record with an escape-free
\* value reaches the header callback with its key and decodes to its value.
C5_HeaderRoundTrip == \A h \in Histories : RoundTrip(h)

C5_OnSlice == RoundTrip(sliceOut)

C5_WithinWindow == NoLongLine => RoundTrip(pgnOut)

\* ------------------------------------------------------------------------
\* C8: a header block with one record whose value has no closing quote on
\* its line is not aborted: that record is reported with the value ending
\* at the newline, and every later valid record of the block is reported
\* in the same call.
\* ------------------------------------------------------------------------
BlockReported(h) ==
    /\ Len(Headers(h[1].log)) >= Len(FirstBlock)
    /\ SubSeq(Headers(h[1].log), 1, Len(FirstBlock)) = Expected(FirstBlock)

Unterminated(h) ==
    (/\ Len(h) >= 1
     /\ Count(FirstBlock, {"HU", "HX"}) = 1
     /\ Count(FirstBlock, {"HN", "HM"}) = 0) => BlockReported(h)

\* C8: on both readers, a block with one unterminated value is reported
\* whole, the unterminated value ending at its newline.
C8_UnterminatedRecovery == \A h \in Histories : Unterminated(h)

\* It holds of the SliceReader when no backslash precedes the newline, and
\* then of the PgnReader on records that end within the window.
C8_OnSlice == Count(FirstBlock, {"HX"}) = 0 => Unterminated(sliceOut)

C8_WithinWindow == NoLongLine => Unterminated(pgnOut)

\* ------------------------------------------------------------------------
\* C9: a record that starts with "[" and reaches a newline before any quote
\* is reported with the bytes between "[" and the newline as the key and
\* an empty value, the newline is consumed and the next record is parsed.
\* ------------------------------------------------------------------------
NoQuote(h) ==
    (/\ Len(h) >= 1
     /\ Count(FirstBlock, {"HN", "HM"}) >= 1
     /\ Count(FirstBlock, {"HU", "HX"}) = 0) => BlockReported(h)

\* C9: on both readers, a block with no-quote records is reported whole,
\* each no-quote record with an empty value.
C9_NoQuoteRecord == \A h \in Histories : NoQuote(h)

C9_OnSlice == NoQuote(sliceOut)

C9_WithinWindow == NoLongLine => NoQuote(pgnOut)

\* ------------------------------------------------------------------------
\* C10: for the same bytes, and however the source splits them into reads,
\* SliceReader and PgnReader make the same callbacks with the same
\* arguments and return the same results, call after call.
\* ------------------------------------------------------------------------
SameCall(a, b) == a.log = b.log /\ a.res = b.res /\ a.ret = b.ret

\* C10: call k on the PgnReader has the log, result and return value of
\* call k on the SliceReader.
C10_AdaptersAgree == \A k \in 1..Len(pgnOut) : SameCall(sliceOut[k], pgnOut[k])

C10_WithinWindow == NoLongLine => C10_AdaptersAgree

\* ------------------------------------------------------------------------
\* Movetext callbacks
\* ------------------------------------------------------------------------
\* The values passed to the callbacks named cb, in order.
RECURSIVE Passed(_, _)
Passed(log, cb) ==
    IF log = <<>> THEN <<>>
    ELSE IF Head(log).cb = cb THEN <<Head(log).value>> \o Passed(Tail(log), cb)
    ELSE Passed(Tail(log), cb)

\* The first call on a document whose first line is the movetext line id,
\* made by read_game with a visitor that answers Skip(false) from
\* end_headers and Skip(true) from begin_variation.
ReadsMovetext(h, id) ==
    /\ doc # <<>> /\ doc[1] # <<>> /\ doc[1][1] = id
    /\ Len(h) >= 1
    /\ h[1].op = "read_game" /\ ~h[1].skips

\* e4 and e5
TopLevelMoves == <<(<<101, 52>>), (<<101, 53>>)>>

\* C11: on the movetext e4 (d4 (Nf3) Nf6) e5, read without skipping the game
\* and skipping every variation, the san callback is made exactly twice, for
\* e4 and then e5.
C11_TopLevelMoves ==
    \A h \in Histories :
        ReadsMovetext(h, "MN") => Passed(h[1].log, "san") = TopLevelMoves

\* C12: on a movetext holding the result token 1-0, read without skipping
\* the game, the outcome callback is made before end_game.
C12_OutcomeReported ==
    \A h \in Histories :
        ReadsMovetext(h, "MO") =>
            /\ h[1].res = "Some"
            /\ \E i \in 1..(Len(h[1].log) - 1) : h[1].log[i].cb = "outcome"

\* The bytes between "{" and the first "}" of a comment line.
Body(id) == IF id = "MC" THEN <<99>> ELSE <<LF, LF, LBRACKET>>

\* C13: a brace comment of the movetext, read without skipping the game, is
\* passed to the comment callback with the bytes between "{" and the first
\* "}" as its body.
C13_CommentReported ==
    \A h \in Histories : \A id \in {"MC", "MB"} :
        ReadsMovetext(h, id) => Passed(h[1].log, "comment") = <<Body(id)>>

\* What the scan does instead: a call that returns Some makes no movetext
\* callback, whatever the movetext holds.
NoMovetextCallback ==
    \A c \in AllCalls : \A i \in 1..Len(c.log) : c.log[i].cb \notin MovetextCbs

\* ------------------------------------------------------------------------
\* Clock::from_ascii
\* ------------------------------------------------------------------------
Seconds(t) == t.h * 3600 + t.m * 60 + t.s

OfClock == result.fn = "Clock::from_ascii"

\* C14: on a well-formed clock comment whose time fits the u8 of a Clock,
\* from_ascii returns Ok with the time in seconds; " [%clk 0:01:00] " gives
\* Ok(Clock(60)).
C14_ClockSeconds ==
    \A t \in ClockTimes :
        (OfClock /\ raw = ClockText(t) /\ Seconds(t) <= U8_MAX) =>
            result.ok /\ result.value = Seconds(t)

\* What it returns instead: the one digit at place 12, the tens of the
\* seconds.
C14_TensOfSeconds ==
    \A t \in ClockTimes :
        (OfClock /\ raw = ClockText(t)) =>
            result.ok /\ result.value = t.s \div 10

\* C15: from_ascii returns for every byte string, never faults, and returns
\* Err whenever the string does not start with the prefix.
C15_ClockNeverFaults ==
    OfClock =>
        /\ ~result.panic
        /\ ~StartsWith(raw, ClockPrefix) => ~result.ok

\* It returns for every string of at least 13 bytes.
C15_LongEnough == (OfClock /\ Len(raw) >= 13) => ~result.panic

\* ------------------------------------------------------------------------
\* Nag::from_ascii
\* ------------------------------------------------------------------------
OfNag == result.fn = "Nag::from_ascii"

Glyph(s, n) == raw = s => result.ok /\ result.value = n

\* C16: the six glyphs give the codes 1 to 6, and "$" followed by the
\* decimal digits of n gives Nag(n) for every n in 0..255.
C16_NagGlyphsAndNumbers ==
    OfNag =>
        /\ Glyph(<<33>>, 1) /\ Glyph(<<63>>, 2)
        /\ Glyph(<<33, 33>>, 3) /\ Glyph(<<63, 63>>, 4)
        /\ Glyph(<<33, 63>>, 5) /\ Glyph(<<63, 33>>, 6)
        /\ \A n \in 0..255 : Glyph(<<36>> \o Decimal(n), n)

C16_Witness ==
    /\ OfNag
    /\ raw = <<36, 50, 53, 53>>
    /\ result.ok /\ result.value = 255

\* The number a run of decimal digits denotes, without a width.
RECURSIVE Denotes(_)
Denotes(s) ==
    IF s = <<>> THEN 0
    ELSE Denotes(SubSeq(s, 1, Len(s) - 1)) * 10 + (s[Len(s)] - 48)

IsNagText(s) ==
    \/ s \in {<<33>>, <<63>>, <<33, 33>>, <<63, 63>>, <<33, 63>>, <<63, 33>>}
    \/ /\ Len(s) > 1 /\ s[1] = 36
       /\ \A i \in 2..Len(s) : s[i] \in 48..57
       /\ Denotes(Drop(s, 1)) <= 255

\* C17: every input that is neither a glyph nor "$" followed by digits of a
\* number in 0..255 gives Err: the empty string, "$" alone, "$" and a
\* non-digit, and "$" and digits past 255.
C17_NagRejects == (OfNag /\ ~IsNagText(raw)) => (~result.ok /\ ~result.panic)

C17_Witness ==
    /\ OfNag
    /\ raw = <<36, 50, 53, 54>>
    /\ ~result.ok

\* ------------------------------------------------------------------------
\* The byte-order mark
\* ------------------------------------------------------------------------
\* The second game of the document starts with a byte-order mark and a
\* header record, and two calls were made.
BomBeforeSecondGame(h) ==
    /\ Len(doc) >= 2 /\ Len(doc[2]) >= 2
    /\ doc[1][Len(doc[1])] = "BL"
    /\ doc[2][1] = "BM" /\ doc[2][2] \in HeaderLines
    /\ Len(h) >= 2

\* C18: a byte-order mark at the start of a later game is not consumed as a
\* byte-order mark: the bytes stay in front of the "[", so the call that
\* reads that game reports no header record.
C18_BomOnlyAtStart ==
    \A h \in Histories : BomBeforeSecondGame(h) => Headers(h[2].log) = <<>>

\* What happens instead: the mark is dropped and the record behind it is
\* reported, as for a mark at the very start of the input.
C18_BomDroppedPerCall ==
    \A h \in Histories :
        BomBeforeSecondGame(h) =>
            Headers(h[2].log) = <<[key |-> Key(doc[2][2]), value |-> Value(doc[2][2])]>>

C18_LeadingBom ==
    \A h \in Histories :
        (doc # <<>> /\ Len(doc[1]) >= 2 /\ doc[1][1] = "BM" /\ doc[1][2] = "HA"
            /\ Len(h) >= 1) =>
            Headers(h[1].log)[1] = [key |-> Key("HA"), value |-> Value("HA")]

\* ------------------------------------------------------------------------
\* Read failures
\* ------------------------------------------------------------------------
\* C19: a PgnReader call within which a read of the source failed returns
\* that error, wherever in the scan the read failed.
C19_ReadFailureIsFatal ==
    \A k \in 1..Len(pgnOut) : pgnOut[k].failed => pgnOut[k].res = "Err"

\* It holds of every document without a %-comment behind a header value.
C19_OutsideKet ==
    (\A i \in 1..Len(doc) : \A j \in 1..Len(doc[i]) : doc[i][j] # "HT")
        => C19_ReadFailureIsFatal

\* A read failed within a call at all.
C19_SomeReadFailed == \E k \in 1..Len(pgnOut) : pgnOut[k].failed /\ pgnOut[k].res = "Err"

\* ------------------------------------------------------------------------
\* fill_buffer
\* ------------------------------------------------------------------------
OfFill == result.fn = "fill_buffer"

\* C20: after a fill_buffer call that returned Ok the window holds at least
\* MIN_BUFFER_SIZE bytes or the source has nothing left, and the boolean
\* returned is true exactly when the window is not empty.
C20_FillBufferInvariant ==
    (OfFill /\ result.ok) =>
        /\ Len(buffer) >= MIN_BUFFER_SIZE \/ inner.data = <<>>
        /\ result.value = 1 <=> buffer # <<>>

\* A call that ended on exhaustion with a short, non-empty window, after
\* bytes had been consumed, the source delivering a few bytes per read.
C20_Witness ==
    /\ OfFill /\ result.ok /\ result.value = 1
    /\ Len(buffer) < MIN_BUFFER_SIZE
    /\ inner.data = <<>>
    /\ inner.chunk = 3
    /\ Len(buffer) < Len(bytes)

\* ------------------------------------------------------------------------
\* No fault on any input
\* ------------------------------------------------------------------------
\* C21: whatever the input, no call consumes more bytes than the window
\* holds or takes a slice of the window out of its range: no call panics,
\* and the SliceReader's pos never passes bytes.len().
C21_NeverFaults ==
    /\ \A c \in AllCalls : c.res # "Panic"
    /\ pos <= Len(bytes)

\* An input cut right behind the backslash of an escape, its record
\* reported by both readers with the value ending at the end of the window.
C21_Witness ==
    /\ bytes # <<>> /\ bytes[Len(bytes)] = BSL
    /\ Len(pgnOut) >= 1 /\ pgnOut[1].res = "Some"
    /\ sliceOut[1].res = "Some"
    /\ Headers(pgnOut[1].log) # <<>>
    /\ Headers(sliceOut[1].log) = <<[key |-> <<67>>, value |-> <<BSL>>]>>

\* ------------------------------------------------------------------------
\* Where the movetext scan stops
\* ------------------------------------------------------------------------
\* The 1-based place of the first newline of s at or behind place i that is
\* outside a brace comment and directly followed by a newline, by "[" or by
\* CR LF; 0 when there is none.
EndsRegion(s, i) ==
    /\ s[i] = LF
    /\ i + 1 <= Len(s)
    /\ \/ s[i + 1] \in {LF, LBRACKET}
       \/ s[i + 1] = CR /\ i + 2 <= Len(s) /\ s[i + 2] = LF

RECURSIVE RegionEnd(_, _, _)
RegionEnd(s, i, inBrace) ==
    IF i > Len(s) THEN 0
    ELSE IF inBrace THEN RegionEnd(s, i + 1, s[i] # RBRACE)
    ELSE IF s[i] = LBRACE THEN RegionEnd(s, i + 1, TRUE)
    ELSE IF EndsRegion(s, i) THEN i
    ELSE RegionEnd(s, i + 1, FALSE)

\* A scan that started at offset from stopped at offset to: behind the
\* terminating newline (and the CR of a CR LF behind it), else at the end
\* of the input.
StopsAtRegionEnd(from, to) ==
    \E e \in {RegionEnd(bytes, from + 1, FALSE)} :
        IF e = 0 THEN to = Len(bytes)
        ELSE IF bytes[e + 1] = CR THEN to = e + 1
        ELSE to = e

\* C22: on both readers every movetext scan stops behind the first newline,
\* outside a brace comment, that is directly followed by a newline, "[" or
\* CR LF, else at the end of the input; what follows that newline ("[" and
\* the header block) is not consumed by the scan.
C22_MovetextRegion ==
    \A c \in AllCalls :
        c.scan # NoScan => StopsAtRegionEnd(c.scan.from, c.scan.to)

\* A scan that passed a blank line and a "[" line inside a brace comment
\* and stopped in front of the "[" of the next header block.
C22_Witness ==
    /\ doc = <<(<<"MB", "HA">>)>>
    /\ Len(pgnOut) >= 2
    /\ pgnOut[1].scan = [from |-> 0, to |-> Len(LineBytes("MB"))]
    /\ sliceOut[1].scan = pgnOut[1].scan
    /\ Headers(pgnOut[2].log) = <<[key |-> Key("HA"), value |-> Value("HA")]>>

\* ------------------------------------------------------------------------
\* The span of a header value
\* ------------------------------------------------------------------------
\* The number of bytes of the window w in front of the byte that ends the
\* value whose bytes start at place i: a backslash and the byte behind it
\* belong to the value, a quote or a newline reached otherwise ends it, and
\* so does the end of the window.
RECURSIVE EscapedEnd(_, _)
EscapedEnd(w, i) ==
    IF i > Len(w) THEN Len(w)
    ELSE IF w[i] = BSL THEN EscapedEnd(w, i + 2)
    ELSE IF w[i] \in {QUOTE, LF} THEN i - 1
    ELSE EscapedEnd(w, i + 1)

\* The value span of the record at the start of the window w.
Span(w) ==
    LET q == SetMin({i \in 1..Len(w) : w[i] = QUOTE})
    IN  SubSeq(w, q + 1, EscapedEnd(w, q + 1))

\* The window of the PgnReader when the first record is scanned.
FirstWindow == PgnFillBuffer(PgnReaderNew(bytes, inner.chunk, -1)).buf

\* The input starts with a record that has an opening quote on its line and
\* within the first window.
StartsWithQuoted ==
    /\ doc # <<>> /\ doc[1] # <<>>
    /\ doc[1][1] \in HeaderLines \cup {"HU", "HX"}

FirstValue(h) == Headers(h[1].log)[1].value

\* C23: the value passed for the first record of the input is the raw span
\* behind the opening quote up to the first quote or newline that no
\* backslash precedes as its escape, or up to the end of the window (the
\* whole input for the SliceReader); escapes are passed undecoded.
C23_EscapedValueSpan ==
    StartsWithQuoted =>
        /\ Len(sliceOut) >= 1 =>
              Headers(sliceOut[1].log) # <<>> /\ FirstValue(sliceOut) = Span(bytes)
        /\ Len(pgnOut) >= 1 =>
              Headers(pgnOut[1].log) # <<>> /\ FirstValue(pgnOut) = Span(FirstWindow)

\* The record [C "\""] followed by another line, its value passed to both
\* readers' visitors as backslash and quote.
C23_Witness ==
    /\ doc # <<>> /\ Len(doc[1]) = 2 /\ doc[1][1] = "HC"
    /\ Len(pgnOut) >= 1
    /\ FirstValue(sliceOut) = <<BSL, QUOTE>>
    /\ FirstValue(pgnOut) = <<BSL, QUOTE>>

\* ------------------------------------------------------------------------
\* %-comment lines in a header block
\* ------------------------------------------------------------------------
\* The leading lines of the input that start with "[" or "%".
RECURSIVE HeaderBlock(_)
HeaderBlock(ls) ==
    IF ls = <<>> \/ Head(ls) \notin RecordLines \cup {"PC"} THEN <<>>
    ELSE <<Head(ls)>> \o HeaderBlock(Tail(ls))

IsRecord(id) == id \in HeaderLines

\* A block of well-formed records and at least one %-line.
PctBlock(b) ==
    /\ \A i \in 1..Len(b) : b[i] \in HeaderLines \cup {"PC"}
    /\ \E i \in 1..Len(b) : b[i] = "PC"
    /\ \E i \in 1..Len(b) : b[i] \in HeaderLines

Keys(hs) == [i \in 1..Len(hs) |-> hs[i].key]

\* The first call reports the records of the block, makes no callback for
\* its %-lines, and read_headers returns at the first byte behind the block.
SkipsPctLines(h) ==
    \E b \in {HeaderBlock(Flatten(doc))} :
        (PctBlock(b) /\ Len(h) >= 1) =>
            /\ h[1].res = "Some"
            /\ Keys(Headers(h[1].log)) = Keys(Expected(SelectSeq(b, IsRecord)))
            /\ h[1].scan.from = Len(RenderLines(b))

\* C24: on both readers, a %-line of a header block is skipped through its
\* newline without a callback, the records behind it are reported, and
\* read_headers returns at the first line that starts with neither "[" nor
\* "%", consuming nothing of it.
C24_PctLinesInBlock == \A h \in Histories : SkipsPctLines(h)

\* It holds of the SliceReader, and of the PgnReader on records that end
\* within the window.
C24_OnSlice == SkipsPctLines(sliceOut)

C24_WithinWindow == NoLongLine => SkipsPctLines(pgnOut)

\* Both readers passed a %-line between two records and stopped in front
\* of the blank line behind the block.
C24_Skipped ==
    /\ doc = <<(<<"HA", "PC", "HG", "BL", "MV", "BL">>)>>
    /\ Len(pgnOut) >= 1
    /\ Keys(Headers(pgnOut[1].log)) = <<Key("HA"), Key("HG")>>
    /\ Keys(Headers(sliceOut[1].log)) = <<Key("HA"), Key("HG")>>
    /\ pgnOut[1].scan.from = Len(RenderLines(<<"HA", "PC", "HG">>))

\* ------------------------------------------------------------------------
\* The reader position and the visitor's answers
\* ------------------------------------------------------------------------
\* What k skip_game calls in a row do to the reader self: for each call
\* the number of bytes it consumed and whether it returned true.
RECURSIVE SkipRun(_, _)
SkipRun(self, k) ==
    IF k = 0 THEN <<>>
    ELSE With(self, LAMBDA r :
         With(SkipGame(r), LAMBDA o :
             <<[consumed |-> Left(r) - Left(o.r), some |-> o.res = "Some"]>>
                 \o SkipRun(o.r, k - 1)))

SameAsSkipRun(h, run) ==
    \A k \in 1..Len(h) :
        /\ h[k].consumed = run[k].consumed
        /\ (h[k].res = "Some") <=> run[k].some

\* C25: whatever the visitors of the calls answered from end_headers, call
\* k consumed as many bytes as the k-th of a run of skip_game calls on the
\* same input does, and returned Some exactly when that call returns true;
\* so any two runs over the same input leave the reader at the same place
\* after every call, and skip_game agrees with read_game.
C25_PositionIgnoresVisitor ==
    /\ \E run \in {SkipRun(SliceReaderNew(bytes), Len(sliceOut))} :
          SameAsSkipRun(sliceOut, run)
    /\ \E run \in {SkipRun(PgnReaderNew(bytes, inner.chunk, -1), Len(pgnOut))} :
          SameAsSkipRun(pgnOut, run)

\* Two games read by read_game, the first with a visitor that answers
\* Skip(false), the second with one that answers Skip(true).
C25_Witness ==
    /\ IsGameDoc(doc) /\ Len(doc) = 2
    /\ Len(pgnOut) >= 2
    /\ pgnOut[1].op = "read_game" /\ ~pgnOut[1].skips /\ pgnOut[1].res = "Some"
    /\ pgnOut[2].op = "read_game" /\ pgnOut[2].skips /\ pgnOut[2].res = "Some"
    /\ pgnOut[1].consumed = Len(RenderLines(doc[1]))
    /\ pgnOut[1].consumed + pgnOut[2].consumed = Len(bytes)
    /\ sliceOut[1].consumed = pgnOut[1].consumed

\* ------------------------------------------------------------------------
\* Progress and termination
\* ------------------------------------------------------------------------
\* The latest call on each reader.
Latest == {h[Len(h)] : h \in {g \in Histories : g # <<>>}}

SomeConsumes == \A c \in Latest : c.res = "Some" => c.consumed >= 1

BothNone ==
    /\ sliceOut # <<>> /\ sliceOut[Len(sliceOut)].res = "None"
    /\ pgnOut # <<>> /\ pgnOut[Len(pgnOut)].res = "None"

\* C26: a call that returns Some has consumed at least one byte, and when
\* read_game is called over and over each reader comes to return None and
\* returns None from then on.
C26_Progress == []SomeConsumes /\ <>[]BothNone

\* Both readers returned None with all of a non-empty input consumed.
C26_Drained ==
    /\ BothNone
    /\ Len(bytes) >= 2 * MIN_BUFFER_SIZE
    /\ pos = Len(bytes)
    /\ buffer = <<>> /\ inner.data = <<>>

\* ------------------------------------------------------------------------
\* The window and the byte stream
\* ------------------------------------------------------------------------
\* What the source has delivered so far.
Delivered == Take(bytes, Len(bytes) - Len(inner.data))

\* C27: after any interleaving of fill_buffer, consume, bump and
\* consume_all on a PgnReader, the bytes taken out of the window so far
\* followed by the bytes of the window are the bytes the source has
\* delivered, a prefix of its stream, in order, whatever the read sizes.
C27_StreamFidelity == raw \o buffer = Delivered

\* A bump that took a byte after more than one window had been consumed,
\* with bytes in the window and bytes still in the source.
C27_Witness ==
    /\ result.fn = "bump" /\ result.ok
    /\ Len(raw) > Capacity
    /\ buffer # <<>>
    /\ inner.data # <<>>
    /\ Len(raw) + Len(buffer) + Len(inner.data) = Len(bytes)

\* ------------------------------------------------------------------------
\* Nag: Display and from_str
\* ------------------------------------------------------------------------
\* The Nag whose text was written is held by result while fn is "Nag::fmt".
Displayed == result.fn = "Nag::fmt" => raw = NagDisplay(result.value)

\* C28: for every n in 0..255, parsing the text that Display writes for
\* Nag(n) returns Ok(Nag(n)).
C28_NagRoundTrip ==
    /\ Displayed
    /\ result.fn = "Nag::from_str" =>
          \A n \in 0..U8_MAX : raw = NagDisplay(n) => result.ok /\ result.value = n

\* Nag(255) written and parsed back.
C28_Witness ==
    /\ result.fn = "Nag::from_str"
    /\ raw = NagDisplay(U8_MAX)
    /\ result.ok /\ result.value = U8_MAX

====
